---- MODULE Spec2Model ----
(***************************************************************************)
(* Random-hyperplane LSH index of ns_ann: the sign projection and bit      *)
(* packing of lsh.rs (mod hyperplane), the bucketed index LSHDB of lsh.rs  *)
(* and the array index ArrIndex of index.rs.                               *)
(*                                                                         *)
(* Scalars are small integers standing for f32/f64 values (sums of them    *)
(* are exact in both).  Arrays are sequences, so the Rust index k is the   *)
(* TLA+ index k + 1; ranges and bin_idx entries keep the Rust (0-based)    *)
(* values.  Option<T> is a sequence: None is << >>, Some(x) is <<x>>.      *)
(***************************************************************************)
EXTENDS Integers, Sequences, FiniteSets, Bags

\* ---------------------------------------------------------------- bounds
\* const generics of LSHDB / ArrIndex: corpus size, hyperplanes, dimension.
N == 3
NB == 2
D == 2
\* largest number of hyperplanes of a Tree descent.
MaxTreeNB == 8
\* usize::BITS, scaled down so that a too-wide sign array can be enumerated.
BITS == 5

\* values of the scalar type T a caller can put in a vector.
Scalar == {-1, 0, 1}
\* values rng.gen::<T>() yields under the Standard distribution (never negative).
Standard == {0, 1}

VARIABLES db, index, call
vars == <<db, index, call>>

None == << >>
Some(x) == <<x>>

Min(a, b) == IF a < b THEN a ELSE b

\* ------------------------------------------------------ lsh.rs, top level
pow2(n) == 2 ^ n

\* --------------------------------------------------- lsh.rs, mod hyperplane
Signs == {"Positive", "Negative"}

\* #[derive(Default)] with #[default] on the first variant: Sign::default().
Sign_default == "Positive"

\* a conversion with the values of the two signs exchanged.
Into_usize_swapped(sign) == IF sign = "Positive" THEN 0 ELSE 1

\* impl Into<usize> for Sign
Into_usize(sign) == IF sign = "Positive" THEN 1 ELSE 0

\* impl From<f32> / From<f64> for Sign
Sign_from(x) == IF x > 0 THEN "Positive" ELSE "Negative"

\* the fold of ProjLSH::proj over the first k dimensions, left to right.
RECURSIVE proj_fold(_, _, _)
proj_fold(a, b, k) ==
  IF k = 0 THEN 0 ELSE proj_fold(a, b, k - 1) + (a[k] + b[k])

\* ProjLSH::proj for f32 and f64 (the two impls have the same body).
proj(a, b) == Sign_from(proj_fold(a, b, Len(a)))

\* the inner product of a and b over the first k dimensions.
RECURSIVE dot(_, _, _)
dot(a, b, k) == IF k = 0 THEN 0 ELSE dot(a, b, k - 1) + (a[k] * b[k])

\* a shift by one position too many.
Shl_one_more(value, idx) == value * (2 ^ (idx + 1))

\* value << idx on usize, for idx < usize::BITS and a result that fits.
Shl(value, idx) == value * (2 ^ idx)

\* the fold shared by Sign::to_usize and hyperplane_project over the first k
\* signs: acc + (Into::<usize>::into(value) << idx), idx = k - 1.
RECURSIVE pack_fold(_, _)
pack_fold(signs, k) ==
  IF k = 0 THEN 0
  ELSE pack_fold(signs, k - 1) + Shl(Into_usize(signs[k]), k - 1)

\* Sign::to_usize, past its assertion L <= usize::BITS.
to_usize(sign_arr) == pack_fold(sign_arr, Len(sign_arr))

\* hyperplane_project, for at most usize::BITS normals.
hyperplane_project(normals, query) ==
  pack_fold([k \in 1..Len(normals) |-> proj(query, normals[k])], Len(normals))

\* ----------------------------------------------------------- lsh.rs, LSHDB
NoDB == [built |-> FALSE]

Vectors(S, d) == [1..d -> S]

\* the vectors the model hands to the builds and the queries: one for each
\* scalar value, with every component equal to it.
Diagonal(S, d) == {[k \in 1..d |-> s] : s \in S}

\* the identifier columns a caller supplies: the indices 0..N-1 of the test,
\* and a corpus in which identifiers repeat.
IdentColumns == {[i \in 1..N |-> i - 1], [i \in 1..N |-> (i - 1) % 2]}

\* the ways to rearrange an array of N entries: p[k] is the position, before
\* the sort, of the entry that the sort leaves at position k.
Arrangements == {p \in [1..N -> 1..N] : \A i, j \in 1..N : i # j => p[i] # p[j]}

\* a sort that compares the first column (the identifier) instead of the bin.
sort_by_first(entries) ==
  {p \in Arrangements :
     \A k \in 1..(N - 1) : entries[p[k]][1] <= entries[p[k + 1]][1]}

\* the arrangements slice::sort_unstable_by may leave of an array of N
\* entries: every one that is ascending in the key (entry[2]); entries with
\* equal keys in any order.
sort_unstable_by(entries) ==
  {p \in Arrangements :
     \A k \in 1..(N - 1) : entries[p[k]][2] <= entries[p[k + 1]][2]}

\* the array after the sort applied the arrangement p: its first k entries.
RECURSIVE arranged(_, _, _)
arranged(entries, p, k) ==
  IF k = 0 THEN << >>
  ELSE Append(arranged(entries, p, k - 1), entries[p[k]])

\* lines 148-155: the first k entries of projections, (ident, bin) for each
\* corpus entry in corpus order.
RECURSIVE project_all(_, _, _)
project_all(hyperplane_normals, vectors, k) ==
  IF k = 0 THEN << >>
  ELSE Append(project_all(hyperplane_normals, vectors, k - 1),
              <<vectors[k][1], hyperplane_project(hyperplane_normals, vectors[k][2])>>)

\* a search that keeps the last position of the bin instead of the first.
find_last(sorted, i) ==
  LET hits == {k \in 1..Len(sorted) : sorted[k][2] = i}
  IN IF hits = {} THEN None
     ELSE Some((CHOOSE k \in hits : \A h \in hits : k >= h) - 1)

\* iter().enumerate().find(|(_, &(_, idx))| i == idx): the first position, or None.
find_first(sorted, i) ==
  LET hits == {k \in 1..Len(sorted) : sorted[k][2] = i}
  IN IF hits = {} THEN None
     ELSE Some((CHOOSE k \in hits : \A h \in hits : k <= h) - 1)

\* lines 163-174: bin_idx[i] is the first index of bin i in the sorted array.
build_bin_idx(sorted) == [i \in 0..(pow2(NB) - 1) |-> find_first(sorted, i)]

\* a copy loop that keeps the bin column instead of the identifier column.
build_buf_of_keys(sorted) == [k \in 1..Len(sorted) |-> sorted[k][2]]

\* lines 178-182: buf keeps the identifier column of the sorted array.
build_buf(sorted) == [k \in 1..Len(sorted) |-> sorted[k][1]]

\* LSHDB::bin_range: the outcome is a panic (first assertion, todo!, second
\* assertion) or the range start..end.
bin_range(d, idx) ==
  IF ~(idx < pow2(NB)) THEN [outcome |-> "panic", start |-> 0, end |-> 0]
  ELSE IF d.bin_idx[idx] = None THEN [outcome |-> "panic", start |-> 0, end |-> 0]
  ELSE LET beg_buf_idx == d.bin_idx[idx][1]
           later == {i \in (idx + 1)..(pow2(NB) - 1) : d.bin_idx[i] # None}
           end_buf_idx ==
             IF later = {} THEN N
             ELSE d.bin_idx[CHOOSE i \in later : \A h \in later : i <= h][1]
       IN IF beg_buf_idx = end_buf_idx
          THEN [outcome |-> "panic", start |-> 0, end |-> 0]
          ELSE [outcome |-> "ok", start |-> beg_buf_idx, end |-> end_buf_idx]

\* an iterator that skips one element too many.
skip_from_next(buf, range) ==
  SubSeq(buf, range.start + 2, Min(Len(buf), range.start + range.end))

\* buf.iter().skip(range.start).take(range.end): at most range.end elements
\* from index range.start on.
skip_take(buf, range) ==
  SubSeq(buf, range.start + 1, Min(Len(buf), range.start + range.end))

\* LSHDB::ann as a value: the outcome and the collected iterator.
ann(d, q) ==
  LET idx == hyperplane_project(d.hyperplane_normals, q)
      range == bin_range(d, idx)
  IN IF range.outcome = "panic" THEN [outcome |-> "panic", out |-> << >>]
     ELSE [outcome |-> "ok", out |-> skip_take(d.buf, range)]

NoCall == [op |-> "none"]
NoIndex == [built |-> FALSE]

\* A behaviour is one use of the library: one structure is built and one
\* call is made on it (queries borrow the structure read-only, so a second
\* call sees what the first saw), or one free function is called.
Fresh == ~db.built /\ ~index.built /\ call.op = "none"

\* LSHDB::new: sample NB normals, hash every corpus vector, sort by bin,
\* record where each bin begins and keep the identifiers.  The arrays the
\* code leaves uninitialised (projections, buf) are written in every slot
\* before any slot is read.  Beside the three fields of the struct, db keeps
\* what the build saw: the corpus (vectors), the array projections before
\* the sort, and the arrangement the sort applied (order[k] = corpus
\* position now at buf[k-1]).
New ==
  /\ Fresh
  /\ \E hn \in [1..NB -> Diagonal(Standard, D)],
        ids \in IdentColumns,
        vs \in [1..N -> Diagonal(Scalar, D)] :
       LET vectors == [i \in 1..N |-> <<ids[i], vs[i]>>]
       IN \E projections \in {project_all(hn, vectors, N)} :
            \E order \in sort_unstable_by(projections) :
              \E sorted \in {arranged(projections, order, N)} :
                db' = [built |-> TRUE,
                       hyperplane_normals |-> hn,
                       bin_idx |-> build_bin_idx(sorted),
                       buf |-> build_buf(sorted),
                       vectors |-> vectors,
                       projections |-> projections,
                       order |-> order]
  /\ UNCHANGED <<index, call>>

\* a call of LSHDB::ann on the built database.
Ann ==
  /\ db.built
  /\ call.op = "none"
  /\ \E q \in Diagonal(Scalar, D) :
       call' = [op |-> "ann", q |-> q,
                outcome |-> ann(db, q).outcome, out |-> ann(db, q).out]
  /\ UNCHANGED <<db, index>>

\* a call of LSHDB::ann_rand: IteratorRandom::choose is None on an empty
\* iterator and any one of its elements otherwise.
AnnRand ==
  /\ db.built
  /\ call.op = "none"
  /\ \E q \in Diagonal(Scalar, D) :
       LET r == ann(db, q)
       IN IF r.outcome = "panic"
          THEN call' = [op |-> "ann_rand", q |-> q, outcome |-> "panic", out |-> None]
          ELSE IF r.out = << >>
          THEN call' = [op |-> "ann_rand", q |-> q, outcome |-> "ok", out |-> None]
          ELSE \E k \in 1..Len(r.out) :
                 call' = [op |-> "ann_rand", q |-> q, outcome |-> "ok",
                          out |-> Some(r.out[k])]
  /\ UNCHANGED <<db, index>>

\* -------------------------------------------------------- index.rs, ArrIndex
\* LSH::bin of the hasher l (Concatenate strategy): the packed signs of the
\* query against the hasher's normals.
bin(l, query) == hyperplane_project(l, query)

\* lines 46-56, the ranges table after the first k entries of the sorted
\* array: a bin seen for the first time at idx gets (idx, N), a bin seen
\* again at idx gets (its start, idx).
RECURSIVE ranges_fold(_, _)
ranges_fold(sorted, k) ==
  IF k = 0 THEN [b \in 0..(pow2(NB) - 1) |-> None]
  ELSE LET ranges == ranges_fold(sorted, k - 1)
           idx == k - 1
           proj_ == sorted[k][2]
       IN IF ranges[proj_] # None
          THEN [ranges EXCEPT ![proj_] = Some(<<ranges[proj_][1][1], idx>>)]
          ELSE [ranges EXCEPT ![proj_] = Some(<<idx, N>>)]

\* lines 37-40: the first k entries of tmp_idx_proj, (idx, l.bin(query)).
RECURSIVE bin_all(_, _, _)
bin_all(l, x, k) ==
  IF k = 0 THEN << >>
  ELSE Append(bin_all(l, x, k - 1), <<k - 1, bin(l, x[k])>>)

\* ArrIndex::build_concatenate over the input x and the hasher l; the table
\* has one entry per bin of l.  Beside ranges and arr, index keeps what the
\* build saw: x, l, tmp_idx_proj before the sort and the arrangement applied.
BuildConcatenate ==
  /\ Fresh
  /\ \E l \in [1..NB -> Diagonal(Standard, D)],
        x \in [1..N -> Diagonal(Scalar, D)] :
       \E tmp_idx_proj \in {bin_all(l, x, N)} :
         \E order \in sort_unstable_by(tmp_idx_proj) :
           \E sorted \in {arranged(tmp_idx_proj, order, N)} :
             index' = [built |-> TRUE,
                       ranges |-> ranges_fold(sorted, N),
                       arr |-> [k \in 1..N |-> sorted[k][1]],
                       x |-> x,
                       l |-> l,
                       tmp_idx_proj |-> tmp_idx_proj,
                       order |-> order]
  /\ UNCHANGED <<db, call>>

\* ArrIndex::get: None for a bin outside the table or without a range,
\* else the slice arr[range.0..range.1] (slicing panics on a bad range).
get(ix, b) ==
  IF ~(b \in DOMAIN ix.ranges) THEN [outcome |-> "ok", out |-> None]
  ELSE IF ix.ranges[b] = None THEN [outcome |-> "ok", out |-> None]
  ELSE LET range == ix.ranges[b][1]
       IN IF range[1] > range[2] \/ range[2] > Len(ix.arr)
          THEN [outcome |-> "panic", out |-> None]
          ELSE [outcome |-> "ok",
                out |-> Some(SubSeq(ix.arr, range[1] + 1, range[2]))]

\* a call of ArrIndex::get on the built index.
Get ==
  /\ index.built
  /\ call.op = "none"
  /\ \E b \in 0..pow2(NB) :
       call' = [op |-> "get", bin |-> b,
                outcome |-> get(index, b).outcome, out |-> get(index, b).out]
  /\ UNCHANGED <<db, index>>

\* ------------------------------------------------- calls of free functions
\* a call of ProjLSH::proj on two vectors of the same dimension.
Proj ==
  /\ Fresh
  /\ \E a, b \in Vectors(Scalar, D) :
       call' = [op |-> "proj", a |-> a, b |-> b, outcome |-> "ok",
                out |-> proj(a, b)]
  /\ UNCHANGED <<db, index>>

\* a call of Sign::to_usize: the assertion L <= usize::BITS, then the fold.
ToUsize ==
  /\ Fresh
  /\ \E L \in 0..(BITS + 1) : \E sign_arr \in [1..L -> Signs] :
       call' = IF ~(L <= BITS)
               THEN [op |-> "to_usize", sign_arr |-> sign_arr,
                     outcome |-> "panic", out |-> 0]
               ELSE [op |-> "to_usize", sign_arr |-> sign_arr,
                     outcome |-> "ok", out |-> to_usize(sign_arr)]
  /\ UNCHANGED <<db, index>>

\* a call of Sign::to_usize on [Sign::default(); L], the array that
\* to_hyperplane_proj starts from (line 99), with no entry written since.
ToUsizeOfDefault ==
  /\ Fresh
  /\ \E L \in 0..BITS :
       \E sign_arr \in {[k \in 1..L |-> Sign_default]} :
         call' = [op |-> "to_usize_of_default", sign_arr |-> sign_arr,
                  outcome |-> "ok", out |-> to_usize(sign_arr)]
  /\ UNCHANGED <<db, index>>

\* the fold of hyperplane_project in a release build: the shift amount and
\* the sum wrap at the word width.
RECURSIVE wrapping_pack_fold(_, _)
wrapping_pack_fold(signs, k) ==
  IF k = 0 THEN 0
  ELSE (wrapping_pack_fold(signs, k - 1)
        + Shl(Into_usize(signs[k]), (k - 1) % BITS)) % pow2(BITS)

\* a call of hyperplane_project on a slice of normals of any length: it has
\* no width check; a shift by idx >= usize::BITS panics in a build with
\* overflow checks and wraps in a build without them.
HyperplaneProject ==
  /\ Fresh
  /\ \E len \in 1..(BITS + 1) :
       \E normals \in [1..len -> Diagonal(Standard, D)],
          query \in Diagonal(Scalar, D),
          overflow_checks \in BOOLEAN :
         LET signs == [k \in 1..len |-> proj(query, normals[k])]
         IN call' = IF len > BITS /\ overflow_checks
                    THEN [op |-> "hyperplane_project", normals |-> normals,
                          query |-> query, outcome |-> "panic", out |-> 0]
                    ELSE [op |-> "hyperplane_project", normals |-> normals,
                          query |-> query, outcome |-> "ok",
                          out |-> wrapping_pack_fold(signs, len)]
  /\ UNCHANGED <<db, index>>

\* ------------------------------------------------ Tree strategy (spec 4.3)
\* K = ceil(log2 nb): the least K with nb <= 2^K.
RECURSIVE ceil_log2_from(_, _)
ceil_log2_from(nb, k) == IF nb <= 2 ^ k THEN k ELSE ceil_log2_from(nb, k + 1)

ceil_log2(nb) == ceil_log2_from(nb, 0)

\* the child the descent moves to: right (2 cur + 2) on Positive, left
\* (2 cur + 1) on Negative.
child(cur, sign) == IF sign = "Positive" THEN 2 * cur + 2 ELSE 2 * cur + 1

\* a Tree descent over nb hyperplanes begins at node 0, no sign collected.
TreeStart ==
  /\ Fresh
  /\ \E nb \in 1..MaxTreeNB :
       call' = [op |-> "tree", nb |-> nb, K |-> ceil_log2(nb), cur |-> 0,
                evaluated |-> << >>, signs |-> << >>, done |-> FALSE, out |-> 0]
  /\ UNCHANGED <<db, index>>

\* one transition: the hyperplane of the current node is evaluated, its
\* sign is collected and the descent moves to the child.
TreeStep ==
  /\ call.op = "tree"
  /\ ~call.done
  /\ Len(call.signs) < call.K
  /\ \E sign \in Signs :
       call' = [call EXCEPT !.evaluated = Append(@, call.cur),
                            !.signs = Append(@, sign),
                            !.cur = child(call.cur, sign)]
  /\ UNCHANGED <<db, index>>

\* terminal, K transitions taken: the collected signs are packed as for
\* Concatenate (bit i = sign at depth i).
TreeEmit ==
  /\ call.op = "tree"
  /\ ~call.done
  /\ Len(call.signs) = call.K
  /\ call' = [call EXCEPT !.done = TRUE, !.out = to_usize(call.signs)]
  /\ UNCHANGED <<db, index>>

Init ==
  /\ db = NoDB
  /\ index = NoIndex
  /\ call = NoCall

\* the bucketed index: built once, then queried.
Next == New \/ Ann \/ AnnRand

Spec == Init /\ [][Next]_vars

\* the array index: built once, then looked up.
NextIndex == BuildConcatenate \/ Get

SpecIndex == Init /\ [][NextIndex]_vars

\* the two builds, side by side.
NextBuild == New \/ BuildConcatenate

SpecBuild == Init /\ [][NextBuild]_vars

\* the free functions of mod hyperplane.
NextHyperplane == Proj \/ ToUsize \/ ToUsizeOfDefault \/ HyperplaneProject

SpecHyperplane == Init /\ [][NextHyperplane]_vars

\* the Tree descent of the bin-identifier assembler.
NextTree == TreeStart \/ TreeStep \/ TreeEmit

SpecTree == Init /\ [][NextTree]_vars

\* ------------------------------------------------------------------ claims
\* the bin the build computed for corpus entry i (LSHDB) / input i (ArrIndex).
corpus_bin(i) == db.projections[i][2]
input_bin(i) == index.tmp_idx_proj[i][2]

\* the (0-based) index of buf at which corpus entry i is stored.
stored_at(o, i) == (CHOOSE k \in DOMAIN o : o[k] = i) - 1

InSeq(x, s) == \E k \in DOMAIN s : s[k] = x

BagOfSeq(s) ==
  [x \in {s[k] : k \in DOMAIN s} |-> Cardinality({k \in DOMAIN s : s[k] = x})]

\* bit i (bit 0 least significant) of the word v.
Bit(v, i) == (v \div (2 ^ i)) % 2

\* C1 (self-retrieval): a call ann(v_i) on a corpus vector v_i does not panic
\* and the sequence it returns contains the identifier id_i.
C1_SelfRetrieval ==
  call.op = "ann" =>
    \A i \in 1..N :
      db.vectors[i][2] = call.q =>
        call.outcome = "ok" /\ InSeq(db.vectors[i][1], call.out)

\* the query is a corpus vector of a bucket that begins past the start of
\* buf, it is not the first of its bucket, and its identifier occurs once in
\* the answer.
C1_Witness ==
  /\ call.op = "ann"
  /\ call.outcome = "ok"
  /\ \E i \in 1..N :
       /\ db.vectors[i][2] = call.q
       /\ db.bin_idx[corpus_bin(i)] # None
       /\ db.bin_idx[corpus_bin(i)][1] > 0
       /\ stored_at(db.order, i) > db.bin_idx[corpus_bin(i)][1]
       /\ Cardinality({k \in DOMAIN call.out : call.out[k] = db.vectors[i][1]}) = 1

\* C2 (original claim): when the bin of the query is non-empty with range
\* (start, end), ann yields exactly buf[start..end): end - start elements.
C2_AnnYieldsExactlyTheBin ==
  (call.op = "ann" /\ db.bin_idx[hyperplane_project(db.hyperplane_normals, call.q)] # None) =>
    LET range == bin_range(db, hyperplane_project(db.hyperplane_normals, call.q))
    IN /\ call.outcome = "ok"
       /\ call.out = SubSeq(db.buf, range.start + 1, range.end)
       /\ Len(call.out) = range.end - range.start

\* C3 (original claim): a query whose bin holds no corpus vector gets an
\* empty sequence from ann and None from ann_rand, without a panic.
C3_EmptyBinSafety ==
  (/\ call.op \in {"ann", "ann_rand"}
   /\ \A i \in 1..N :
        corpus_bin(i) # hyperplane_project(db.hyperplane_normals, call.q)) =>
    call.outcome = "ok" /\ call.out = << >>

\* C4 (original claim): after build_concatenate, get(l.bin(x[i])) is
\* Some(slice) and the slice contains the identifier i, for every input i.
C4_HashConsistency ==
  index.built =>
    \A i \in 1..N :
      LET g == get(index, bin(index.l, index.x[i]))
      IN g.outcome = "ok" /\ g.out # None /\ InSeq(i - 1, g.out[1])

\* the half-open interval [start, end) of a range of the table.
Interval(range) == {k \in 0..(N - 1) : range[1] <= k /\ k < range[2]}

NonEmptyBins(ranges) == {b \in DOMAIN ranges : ranges[b] # None}

RECURSIVE SumOfLengths(_, _)
SumOfLengths(ranges, bins) ==
  IF bins = {} THEN 0
  ELSE LET b == CHOOSE c \in bins : TRUE
       IN (ranges[b][1][2] - ranges[b][1][1]) + SumOfLengths(ranges, bins \ {b})

\* C5 (original claim): the non-empty ranges of the table are pairwise
\* disjoint, their lengths sum to N and their union is [0, N).
C5_Partition ==
  index.built =>
    LET ranges == index.ranges
        bins == NonEmptyBins(ranges)
    IN /\ \A b, c \in bins :
            b # c => Interval(ranges[b][1]) \cap Interval(ranges[c][1]) = {}
       /\ SumOfLengths(ranges, bins) = N
       /\ UNION {Interval(ranges[b][1]) : b \in bins} = 0..(N - 1)

\* C6 (permutation): buf holds every input identifier as many times as the
\* corpus does, and nothing else.
C6_Permutation ==
  db.built =>
    BagOfSeq(db.buf) = BagOfSeq([i \in 1..N |-> db.vectors[i][1]])

\* a build that moved entries and whose corpus repeats an identifier.
C6_Witness ==
  /\ db.built
  /\ \E i \in 1..N : db.order[i] # i
  /\ \E i, j \in 1..N : i # j /\ db.vectors[i][1] = db.vectors[j][1]
  /\ db.buf # [i \in 1..N |-> db.vectors[i][1]]

\* C7 (bit packing): for a sign array of length L <= usize::BITS, to_usize
\* returns the word whose bit i is 1 iff s[i] is Positive, a value in
\* [0, 2^L); [Positive, Negative, Negative, Positive, Positive] gives 0b11001.
C7_BitPacking ==
  (call.op = "to_usize" /\ Len(call.sign_arr) <= BITS) =>
    /\ call.outcome = "ok"
    /\ 0 <= call.out /\ call.out < 2 ^ Len(call.sign_arr)
    /\ \A k \in 1..Len(call.sign_arr) :
         /\ call.sign_arr[k] = "Positive" => Bit(call.out, k - 1) = 1
         /\ call.sign_arr[k] = "Negative" => Bit(call.out, k - 1) = 0
    /\ call.sign_arr = <<"Positive", "Negative", "Negative", "Positive", "Positive">>
         => call.out = 25

C7_Witness ==
  /\ call.op = "to_usize"
  /\ call.sign_arr = <<"Positive", "Negative", "Negative", "Positive", "Positive">>
  /\ call.outcome = "ok"
  /\ call.out = 25

\* C8 (original claim): proj(a, b) is Positive iff the sum of the products
\* a[i] * b[i] is greater than zero, and Negative otherwise.
C8_SignOfInnerProduct ==
  call.op = "proj" =>
    call.out = (IF dot(call.a, call.b, Len(call.a)) > 0 THEN "Positive" ELSE "Negative")

C10_WordSizeGate ==
  /\ (call.op = "hyperplane_project" /\ Len(call.normals) > BITS) =>
       call.outcome = "ConfigurationTooWide"
  /\ (call.op = "to_usize" /\ Len(call.sign_arr) > BITS) =>
       call.outcome = "ConfigurationTooWide"

\* C11 (original claim): Sign::default() is Negative, and a sign array whose
\* entries are all left at the default packs through to_usize to bin 0.
C11_NegativeIsDefault ==
  call.op = "to_usize_of_default" =>
    /\ \A k \in 1..Len(call.sign_arr) : call.sign_arr[k] = "Negative"
    /\ call.out = 0

\* the corpus entries whose vector the build hashed to bin b.
members(b) == {i \in 1..N : corpus_bin(i) = b}

\* C12 (bin table exactness): bin_idx[b] is Some iff a corpus vector hashes
\* to b; for such b bin_range(b) passes its assertions and returns
\* start < end with end - start the number of vectors of the bin, and
\* buf[start..end) holds the identifiers of exactly those corpus entries.
C12_BinTableExact ==
  db.built =>
    \A b \in 0..(pow2(NB) - 1) :
      /\ db.bin_idx[b] # None <=> members(b) # {}
      /\ members(b) # {} =>
           LET range == bin_range(db, b)
           IN /\ range.outcome = "ok"
              /\ range.start = db.bin_idx[b][1]
              /\ range.start < range.end
              /\ range.end <= N
              /\ range.end - range.start = Cardinality(members(b))
              /\ {db.order[k] : k \in (range.start + 1)..range.end} = members(b)
              /\ \A k \in (range.start + 1)..range.end :
                   db.buf[k] = db.vectors[db.order[k]][1]

\* a build with a bin of two or more vectors that begins past the start of
\* buf, after a bin that stayed empty.
C12_Witness ==
  /\ db.built
  /\ \E b \in 0..(pow2(NB) - 1) :
       /\ Cardinality(members(b)) >= 2
       /\ db.bin_idx[b] # None
       /\ db.bin_idx[b][1] > 0
       /\ bin_range(db, b).outcome = "ok"
       /\ \E c \in 0..(b - 1) : db.bin_idx[c] = None

====
